---- MODULE Spec2Model ----
(***************************************************************************)
(* TokenizedBuffer (src/src/tokenized-buffer.js): the per-row cache of     *)
(* tokenized lines, the list of invalid rows and the deferred chunk that   *)
(* drains it, under edits of the text buffer, grammar changes, visibility  *)
(* changes, on-demand queries and destruction.                             *)
(*                                                                         *)
(* Rows are the 0-based rows of the source; row r of a sequence s is       *)
(* s[r + 1].                                                               *)
(***************************************************************************)
EXTENDS Integers, Sequences, FiniteSets, TLC

VARIABLES
    buffer,          \* the text buffer: the sequence of its line texts
    bufferAlive,     \* buffer.isAlive()
    alive,           \* this.alive
    largeFileMode,   \* this.largeFileMode
    grammar,         \* this.grammar (its name)
    visible,         \* this.visible
    pendingChunk,    \* this.pendingChunk
    fullyTokenized,  \* this.fullyTokenized
    tokenizedLines,  \* this.tokenizedLines
    invalidRows,     \* this.invalidRows
    deferred,        \* number of _.defer callbacks not yet run
    emitted,         \* events the last operation emitted, in order
    tokenizeEvents,  \* did-tokenize events emitted since the last reset of the cache
    chunkSize,       \* this.chunkSize
    lastCall,        \* the operation that ran last: its name and, where a property
                     \* reads them, its arguments and what it returned
    quiescent        \* the environment has stopped editing (liveness only)

vars == <<buffer, bufferAlive, alive, largeFileMode, grammar, visible, pendingChunk,
          fullyTokenized, tokenizedLines, invalidRows, deferred, emitted,
          tokenizeEvents, chunkSize, lastCall, quiescent>>

----------------------------------------------------------------------------
(* Bounds and configuration *)

MaxLines == 3

\* the largest chunkSize assigned to a TokenizedBuffer
MaxChunkSize == 2

\* edits are not taken once invalidRows would hold more entries than this
MaxInvalidRows == 2

\* the longest tag sequence and the deepest scope stack scopesFromTags is applied to
MaxTags == 3

MaxOpenScopes == 2

\* the slots of the emptied cache that queries of a destroyed TokenizedBuffer refill
MaxRefilled == 1

Texts == {"x", "/*", "*/"}

NullGrammar == "Null Grammar"

Grammars == {NullGrammar, "blocks"}

\* a null or undefined grammar argument
NoGrammar == "null"

----------------------------------------------------------------------------
(* Numbers *)

\* undefined where a number is read, and the NaN arithmetic makes of it: every
\* comparison with it is false
NoNumber == <<>>

Number(n) == <<n>>

----------------------------------------------------------------------------
(* Sequences *)

Min(a, b) == IF a < b THEN a ELSE b

Max(a, b) == IF a > b THEN a ELSE b

SeqsUpTo(S, n) == UNION {[1..k -> S] : k \in 1..n}

\* the % of JavaScript: the remainder takes the sign of the dividend
JsRemainder(a, b) == IF a < 0 THEN 0 - ((0 - a) % b) ELSE a % b

RECURSIVE InsertSorted(_, _)
InsertSorted(x, s) ==
    IF s = <<>> THEN <<x>>
    ELSE IF x < Head(s) THEN <<x>> \o s
    ELSE <<Head(s)>> \o InsertSorted(x, Tail(s))

\* Array.prototype.sort((a, b) => a - b)
RECURSIVE SortAscending(_)
SortAscending(s) ==
    IF s = <<>> THEN <<>> ELSE InsertSorted(Head(s), SortAscending(Tail(s)))

\* _.spliceWithArray(array, start, length, inserted)
spliceWithArray(array, start, length, inserted) ==
    LET from == Min(start, Len(array))
        upto == Min(from + length, Len(array))
    IN SubSeq(array, 1, from) \o inserted \o SubSeq(array, upto + 1, Len(array))

----------------------------------------------------------------------------
(* The grammar: tokenizeLine(text, ruleStack, firstLine) and the scope ids *)

NoStack == <<>>

TextLength(text) == IF text = "x" THEN 1 ELSE 2

scopeName(g) ==
    IF g = "blocks" THEN "source.blocks" ELSE "text.plain.null-grammar"

startIdForScope(g, scope) ==
    CASE scope = "source.blocks" -> -1
      [] scope = "comment.block" -> -3
      [] OTHER -> -5

endIdForScope(g, scope) == startIdForScope(g, scope) - 1

\* "blocks" has one multi-line construct, the block comment.
tokenizeLine(g, text, ruleStack, firstLine) ==
    LET fresh == ruleStack = NoStack
        stack == IF fresh THEN <<scopeName(g)>> ELSE ruleStack
        root == IF fresh THEN <<startIdForScope(g, scopeName(g))>> ELSE <<>>
        inComment == Len(stack) > 1
    IN IF g = "blocks" /\ ~inComment /\ text = "/*"
         THEN [tags |-> root \o <<startIdForScope(g, "comment.block"), TextLength(text)>>,
               ruleStack |-> stack \o <<"comment.block">>]
       ELSE IF g = "blocks" /\ inComment /\ text = "*/"
         THEN [tags |-> root \o <<TextLength(text), endIdForScope(g, "comment.block")>>,
               ruleStack |-> SubSeq(stack, 1, Len(stack) - 1)]
       ELSE [tags |-> root \o <<TextLength(text)>>, ruleStack |-> stack]

----------------------------------------------------------------------------
(* TokenizedLine values and the cache *)

\* an empty slot of this.tokenizedLines (undefined)
NoLine == [present |-> FALSE, text |-> "", tags |-> <<>>, ruleStack |-> NoStack,
           openScopes |-> <<>>]

\* what a call returned: threw is TRUE when it raised a TypeError instead
Returned(threw, value) == [threw |-> threw, value |-> value]

\* the return value of a method that returns nothing
Undefined == Returned(FALSE, NoLine)

TokenizedLine(text, tags, ruleStack, openScopes) ==
    [present |-> TRUE, text |-> text, tags |-> tags, ruleStack |-> ruleStack,
     openScopes |-> openScopes]

\* new Array(n)
NewArray(n) == [i \in 1..n |-> NoLine]

\* this.tokenizedLines[row]
LineAt(lines, row) ==
    IF row >= 0 /\ row < Len(lines) THEN lines[row + 1] ELSE NoLine

\* this.tokenizedLines[row] = line (a JavaScript array grows to hold the index)
SetLine(lines, row, line) ==
    [i \in 1..Max(Len(lines), row + 1) |->
        IF i = row + 1 THEN line ELSE IF i <= Len(lines) THEN lines[i] ELSE NoLine]

getLineCount(t) == Len(t.buffer)

getLastRow(t) == Len(t.buffer) - 1

lineForRow(t, row) == t.buffer[row + 1]

stackForRow(t, bufferRow) == LineAt(t.tokenizedLines, bufferRow).ruleStack

\* while (true) { if (scopes.pop() === matchingStartTag) break; if empty: assert, break }
RECURSIVE PopUntil(_, _)
PopUntil(scopes, matchingStartTag) ==
    IF scopes = <<>> THEN [scopes |-> <<>>, asserted |-> TRUE]
    ELSE LET popped == scopes[Len(scopes)]
             rest == SubSeq(scopes, 1, Len(scopes) - 1)
         IN IF popped = matchingStartTag THEN [scopes |-> rest, asserted |-> FALSE]
            ELSE IF rest = <<>> THEN [scopes |-> <<>>, asserted |-> TRUE]
            ELSE PopUntil(rest, matchingStartTag)

\* the for loop of scopesFromTags; asserts counts the calls of this.assert(false, ...)
RECURSIVE FoldTags(_, _, _)
FoldTags(scopes, tags, asserts) ==
    IF tags = <<>> THEN [scopes |-> scopes, asserts |-> asserts]
    ELSE LET tag == Head(tags) IN
         IF tag < 0
           THEN IF JsRemainder(tag, 2) = -1
                  THEN FoldTags(Append(scopes, tag), Tail(tags), asserts)
                  ELSE LET p == PopUntil(scopes, tag + 1)
                       IN FoldTags(p.scopes, Tail(tags),
                                   asserts + (IF p.asserted THEN 1 ELSE 0))
           ELSE FoldTags(scopes, Tail(tags), asserts)

scopesFromTags(startingScopes, tags) == FoldTags(startingScopes, tags, 0).scopes

openScopesForRowUnfolded(t, bufferRow) ==
    LET precedingLine == LineAt(t.tokenizedLines, bufferRow - 1)
    IN IF precedingLine.present THEN precedingLine.openScopes ELSE <<>>

openScopesForRow(t, bufferRow) ==
    LET precedingLine == LineAt(t.tokenizedLines, bufferRow - 1)
    IN IF precedingLine.present
         THEN scopesFromTags(precedingLine.openScopes, precedingLine.tags)
         ELSE <<>>

buildTokenizedLineForRowWithText(t, row, text, currentRuleStack, openScopes) ==
    LET r == tokenizeLine(t.grammar, text, currentRuleStack, row = 0)
    IN TokenizedLine(text, r.tags, r.ruleStack, openScopes)

buildTokenizedLineForRow(t, row, ruleStack, openScopes) ==
    buildTokenizedLineForRowWithText(t, row, lineForRow(t, row), ruleStack, openScopes)

----------------------------------------------------------------------------
(* The object: every operation maps a record of its fields to the next one *)

This ==
    [buffer |-> buffer, bufferAlive |-> bufferAlive, alive |-> alive,
     largeFileMode |-> largeFileMode, grammar |-> grammar, visible |-> visible,
     pendingChunk |-> pendingChunk, fullyTokenized |-> fullyTokenized,
     tokenizedLines |-> tokenizedLines, invalidRows |-> invalidRows,
     deferred |-> deferred, emitted |-> <<>>, tokenizeEvents |-> tokenizeEvents,
     chunkSize |-> chunkSize]

Event(name, arg) == [name |-> name, arg |-> arg]

\* this.emitter.emit(name, arg)
emit(t, name, arg) ==
    [t EXCEPT !.emitted = Append(@, Event(name, arg)),
              !.tokenizeEvents = IF name = "did-tokenize" THEN @ + 1 ELSE @]

tokenizeInBackgroundUndebounced(t) ==
    IF ~t.visible \/ ~t.alive THEN t
    ELSE [t EXCEPT !.pendingChunk = TRUE, !.deferred = @ + 1]

tokenizeInBackground(t) ==
    IF ~t.visible \/ t.pendingChunk \/ ~t.alive THEN t
    ELSE [t EXCEPT !.pendingChunk = TRUE, !.deferred = @ + 1]

markTokenizationCompleteAlwaysEmits(t) ==
    [emit(t, "did-tokenize", <<>>) EXCEPT !.fullyTokenized = TRUE]

markTokenizationComplete(t) ==
    LET t1 == IF ~t.fullyTokenized THEN emit(t, "did-tokenize", <<>>) ELSE t
    IN [t1 EXCEPT !.fullyTokenized = TRUE]

firstInvalidRow(t) == IF t.invalidRows = <<>> THEN -1 ELSE Head(t.invalidRows)

RECURSIVE DropLeading(_, _)
DropLeading(rows, row) ==
    IF rows # <<>> /\ Head(rows) <= row THEN DropLeading(Tail(rows), row) ELSE rows

validateRowKeepsAll(t, row) == t

validateRow(t, row) == [t EXCEPT !.invalidRows = DropLeading(@, row)]

invalidateRowUnsorted(t, row) ==
    tokenizeInBackground([t EXCEPT !.invalidRows = Append(@, row)])

invalidateRow(t, row) ==
    tokenizeInBackground([t EXCEPT !.invalidRows = SortAscending(Append(@, row))])

RebaseRowShiftsEdited(row, start, end, delta) ==
    IF row < start THEN row ELSE row + delta

RebaseRowPastEnd(row, start, end, delta) ==
    IF row < start THEN row
    ELSE IF start <= row /\ row <= end THEN end + delta + 2
    ELSE row + delta

RebaseRow(row, start, end, delta) ==
    IF row < start THEN row
    ELSE IF start <= row /\ row <= end THEN end + delta + 1
    ELSE row + delta

updateInvalidRows(t, start, end, delta) ==
    [t EXCEPT !.invalidRows =
        [i \in 1..Len(@) |-> RebaseRow(@[i], start, end, delta)]]

IsNullMode(t) == t.largeFileMode \/ t.grammar = NullGrammar

retokenizeLines(t) ==
    IF ~t.alive THEN t
    ELSE LET t1 == [t EXCEPT !.fullyTokenized = FALSE,
                             !.tokenizeEvents = 0,
                             !.tokenizedLines = NewArray(getLineCount(t)),
                             !.invalidRows = <<>>]
         IN IF IsNullMode(t1) THEN markTokenizationComplete(t1)
            ELSE invalidateRow(t1, 0)

setGrammar(t, g) ==
    IF g = NoGrammar \/ g = t.grammar THEN t
    ELSE emit(retokenizeLines([t EXCEPT !.grammar = g]), "did-change-grammar", <<g>>)

setVisibleWithoutWakeUp(t, v) == [t EXCEPT !.visible = v]

setVisibleAnyGrammar(t, v) ==
    LET t1 == [t EXCEPT !.visible = v]
    IN IF v THEN tokenizeInBackground(t1) ELSE t1

setVisible(t, v) ==
    LET t1 == [t EXCEPT !.visible = v]
    IN IF v /\ t1.grammar # NullGrammar /\ ~t1.largeFileMode
         THEN tokenizeInBackground(t1) ELSE t1

destroy(t) ==
    IF ~t.alive THEN t
    ELSE [t EXCEPT !.alive = FALSE, !.tokenizedLines = <<>>]

\* the inner while (true) loop of tokenizeNextChunk, from row on
RECURSIVE TokenizeRegion(_, _, _, _)
TokenizeRegion(t, row, rowsRemaining, lastRow) ==
    LET previousStack == stackForRow(t, row)
        line == buildTokenizedLineForRow(t, row, stackForRow(t, row - 1),
                                         openScopesForRow(t, row))
        t1 == [t EXCEPT !.tokenizedLines = SetLine(@, row, line)]
        remaining == rowsRemaining - 1
    IN IF remaining = 0
         THEN [t |-> t1, endRow |-> row, filledRegion |-> FALSE, rowsRemaining |-> remaining]
       ELSE IF row = lastRow \/ stackForRow(t1, row) = previousStack
         THEN [t |-> t1, endRow |-> row, filledRegion |-> TRUE, rowsRemaining |-> remaining]
       ELSE TokenizeRegion(t1, row + 1, remaining, lastRow)

\* the outer while loop of tokenizeNextChunk
RECURSIVE TokenizeRegions(_, _)
TokenizeRegions(t, rowsRemaining) ==
    IF t.invalidRows # <<>> /\ rowsRemaining > 0
      THEN LET startRow == Head(t.invalidRows)
               t1 == [t EXCEPT !.invalidRows = Tail(@)]
               lastRow == getLastRow(t1)
           IN IF startRow > lastRow THEN TokenizeRegions(t1, rowsRemaining)
              ELSE LET r == TokenizeRegion(t1, startRow, rowsRemaining, lastRow)
                       t2 == validateRow(r.t, r.endRow)
                       t3 == IF ~r.filledRegion THEN invalidateRow(t2, r.endRow + 1) ELSE t2
                       t4 == emit(t3, "did-invalidate-range", <<startRow, r.endRow + 1>>)
                   IN TokenizeRegions(t4, r.rowsRemaining)
      ELSE t

tokenizeNextChunkNeverCompletes(t) ==
    LET t1 == IF t.chunkSize = NoNumber THEN t ELSE TokenizeRegions(t, t.chunkSize[1])
    IN IF t1.invalidRows # <<>> THEN tokenizeInBackground(t1) ELSE t1

\* let rowsRemaining = this.chunkSize: when it is undefined rowsRemaining > 0 is
\* false and the outer loop is not entered
tokenizeNextChunk(t) ==
    LET t1 == IF t.chunkSize = NoNumber THEN t ELSE TokenizeRegions(t, t.chunkSize[1])
    IN IF t1.invalidRows # <<>> THEN tokenizeInBackground(t1)
       ELSE markTokenizationComplete(t1)

deferredChunkIgnoresLiveness(t) ==
    tokenizeNextChunk([t EXCEPT !.pendingChunk = FALSE, !.deferred = @ - 1])

deferredChunkKeepsPending(t) ==
    LET t1 == [t EXCEPT !.deferred = @ - 1]
    IN IF t1.alive /\ t1.bufferAlive THEN tokenizeNextChunk(t1) ELSE t1

\* the callback tokenizeInBackground hands to _.defer
deferredChunk(t) ==
    LET t1 == [t EXCEPT !.pendingChunk = FALSE, !.deferred = @ - 1]
    IN IF t1.alive /\ t1.bufferAlive THEN tokenizeNextChunk(t1) ELSE t1

\* the for loop of buildTokenizedLinesForRows, from row on
RECURSIVE BuildRows(_, _, _, _, _, _, _)
BuildRows(t, row, endRow, ruleStack, openScopes, stopTokenizingAt, lines) ==
    IF row > endRow THEN lines
    ELSE IF (ruleStack # NoStack \/ row = 0)
              /\ stopTokenizingAt # NoNumber /\ row < stopTokenizingAt[1]
      THEN LET tokenizedLine == buildTokenizedLineForRow(t, row, ruleStack, openScopes)
           IN BuildRows(t, row + 1, endRow, tokenizedLine.ruleStack,
                        scopesFromTags(openScopes, tokenizedLine.tags),
                        stopTokenizingAt, Append(lines, tokenizedLine))
      ELSE BuildRows(t, row + 1, endRow, ruleStack, openScopes, stopTokenizingAt,
                     Append(lines, NoLine))

buildTokenizedLinesForRowsUnbounded(t, startRow, endRow, startingStack, startingOpenScopes) ==
    [t |-> t,
     tokenizedLines |-> BuildRows(t, startRow, endRow, startingStack, startingOpenScopes,
                                  Number(endRow + 1), <<>>)]

buildTokenizedLinesForRows(t, startRow, endRow, startingStack, startingOpenScopes) ==
    LET stopTokenizingAt == IF t.chunkSize = NoNumber THEN NoNumber
                            ELSE Number(startRow + t.chunkSize[1])
        lines == BuildRows(t, startRow, endRow, startingStack, startingOpenScopes,
                           stopTokenizingAt, <<>>)
        t1 == IF stopTokenizingAt # NoNumber /\ endRow >= stopTokenizingAt[1]
                THEN tokenizeInBackground(invalidateRow(t, stopTokenizingAt[1]))
                ELSE t
    IN [t |-> t1, tokenizedLines |-> lines]

newLineCountAsOld(e) == (e.oldRange.end - e.oldRange.start) + 1

oldLineCountOf(e) == (e.oldRange.end - e.oldRange.start) + 1

newLineCountOf(e) == (e.newRange.end - e.newRange.start) + 1

\* the test that decides whether the edit invalidates row end + delta + 1
SpillsOnAnyChange(newEndStack, previousEndStack) == newEndStack # previousEndStack

SpillsNever(newEndStack, previousEndStack) == FALSE

Spills(newEndStack, previousEndStack) ==
    newEndStack # NoStack /\ newEndStack # previousEndStack

\* e carries the rows of oldRange and newRange; t.buffer is the buffer after the change
bufferDidChange(t, e) ==
    LET start == e.oldRange.start
        end == e.oldRange.end
        delta == e.newRange.end - e.oldRange.end
        oldLineCount == oldLineCountOf(e)
        newLineCount == newLineCountOf(e)
        t1 == updateInvalidRows(t, start, end, delta)
        previousEndStack == stackForRow(t1, end)
    IN IF IsNullMode(t1)
         THEN [t1 EXCEPT !.tokenizedLines =
                  spliceWithArray(@, start, oldLineCount, NewArray(newLineCount))]
         ELSE LET b == buildTokenizedLinesForRows(t1, start, end + delta,
                           stackForRow(t1, start - 1), openScopesForRow(t1, start))
                  t2 == [b.t EXCEPT !.tokenizedLines =
                            spliceWithArray(@, start, oldLineCount, b.tokenizedLines)]
                  newEndStack == stackForRow(t2, end + delta)
              IN IF Spills(newEndStack, previousEndStack)
                   THEN invalidateRow(t2, end + delta + 1)
                   ELSE t2

PlaceholderLineWithRuleStack(t, bufferRow) ==
    LET text == lineForRow(t, bufferRow)
    IN TokenizedLine(text,
                     <<startIdForScope(t.grammar, scopeName(t.grammar)), TextLength(text),
                       endIdForScope(t.grammar, scopeName(t.grammar))>>,
                     <<scopeName(t.grammar)>>, <<>>)

\* the line tokenizedLineForRow returns when the slot is empty
PlaceholderLine(t, bufferRow) ==
    LET text == lineForRow(t, bufferRow)
    IN TokenizedLine(text,
                     <<startIdForScope(t.grammar, scopeName(t.grammar)), TextLength(text),
                       endIdForScope(t.grammar, scopeName(t.grammar))>>,
                     NoStack, <<>>)

\* the state tokenizedLineForRow leaves
tokenizedLineForRow(t, bufferRow) ==
    IF bufferRow >= 0 /\ bufferRow <= getLastRow(t)
         /\ ~LineAt(t.tokenizedLines, bufferRow).present
      THEN [t EXCEPT !.tokenizedLines = SetLine(@, bufferRow, PlaceholderLine(t, bufferRow))]
      ELSE t

\* the line tokenizedLineForRow returns (NoLine: it returns nothing)
tokenizedLineForRowResult(t, bufferRow) ==
    IF bufferRow >= 0 /\ bufferRow <= getLastRow(t)
      THEN LineAt(tokenizedLineForRow(t, bufferRow).tokenizedLines, bufferRow)
      ELSE NoLine

\* the state tokenizedLinesForRows(startRow, endRow) leaves: one call of
\* tokenizedLineForRow for every row of the range
RECURSIVE tokenizedLinesForRows(_, _, _)
tokenizedLinesForRows(t, startRow, endRow) ==
    IF startRow > endRow THEN t
    ELSE tokenizedLinesForRows(tokenizedLineForRow(t, startRow), startRow + 1, endRow)

\* the row of buffer.clipPosition(position)
clipRow(t, row) == Max(0, Min(row, getLastRow(t)))

\* the state scopeDescriptorForPosition leaves: it reads the line of the clipped
\* row through tokenizedLineForRow
scopeDescriptorForPosition(t, row) == tokenizedLineForRow(t, clipRow(t, row))

\* tokenForPosition: this.tokenizedLineForRow(row).tokenAtBufferColumn(column).
\* The value is the line the lookup is delegated to; a method call on undefined
\* raises a TypeError.
tokenForPosition(t, row) == tokenizedLineForRow(t, row)

tokenForPositionResult(t, row) ==
    LET line == tokenizedLineForRowResult(t, row)
    IN Returned(~line.present, line)

\* tokenStartPositionForPosition:
\* this.tokenizedLineForRow(row).tokenStartColumnForBufferColumn(column)
tokenStartPositionForPosition(t, row) == tokenizedLineForRow(t, row)

tokenStartPositionForPositionResult(t, row) ==
    LET line == tokenizedLineForRowResult(t, row)
    IN Returned(~line.present, line)

\* bufferRangeForScopeAtPosition:
\* const {openScopes, tags} = this.tokenizedLineForRow(position.row); destructuring
\* undefined raises a TypeError. The value is the line whose tags are walked.
bufferRangeForScopeAtPosition(t, row) == tokenizedLineForRow(t, row)

bufferRangeForScopeAtPositionResult(t, row) ==
    LET line == tokenizedLineForRowResult(t, row)
    IN Returned(~line.present, line)

\* TokenizedLine.isComment(): the first token of the line lies in a comment scope
isComment(g, line) ==
    LET commentId == startIdForScope(g, "comment.block")
    IN \/ \E i \in 1..Len(line.openScopes) : line.openScopes[i] = commentId
       \/ \E i \in 1..Len(line.tags) :
             line.tags[i] = commentId /\ \A j \in 1..(i - 1) : line.tags[j] < 0

\* no text of Texts is blank or indented
isRowBlank(t, row) == lineForRow(t, row) = ""

indentLevelForRow(t, row) == 0

\* buffer.nextNonBlankRow(row); -1 stands for null
nextNonBlankRow(t, row) == IF row < getLastRow(t) THEN row + 1 ELSE -1

isFoldableCodeAtRow(t, row) ==
    IF row >= 0 /\ row <= getLastRow(t)
      THEN LET nextRow == nextNonBlankRow(t, row)
               tokenizedLine == LineAt(t.tokenizedLines, row)
           IN IF isRowBlank(t, row)
                   \/ (tokenizedLine.present /\ isComment(t.grammar, tokenizedLine))
                   \/ nextRow = -1
                THEN FALSE
                ELSE indentLevelForRow(t, nextRow) > indentLevelForRow(t, row)
      ELSE FALSE

\* the truthiness of the value returned (undefined when the row has no line)
isFoldableCommentAtRow(t, row) ==
    LET previous == LineAt(t.tokenizedLines, row - 1)
        current == LineAt(t.tokenizedLines, row)
        next == LineAt(t.tokenizedLines, row + 1)
    IN /\ ~previous.present \/ ~isComment(t.grammar, previous)
       /\ current.present /\ isComment(t.grammar, current)
       /\ next.present /\ isComment(t.grammar, next)

isFoldableAtRow(t, row) == isFoldableCodeAtRow(t, row) \/ isFoldableCommentAtRow(t, row)

\* the buffer's lines after rows start..end are replaced by newLines
ReplaceRows(lines, start, end, newLines) ==
    SubSeq(lines, 1, start) \o newLines \o SubSeq(lines, end + 2, Len(lines))

----------------------------------------------------------------------------
(* The state machine *)

Call(name, args, result) == [name |-> name, args |-> args, result |-> result]

\* a call of which only the name is recorded
Named(name) == [name |-> name]

Install(t, call) ==
    /\ buffer' = t.buffer
    /\ bufferAlive' = t.bufferAlive
    /\ alive' = t.alive
    /\ largeFileMode' = t.largeFileMode
    /\ grammar' = t.grammar
    /\ visible' = t.visible
    /\ pendingChunk' = t.pendingChunk
    /\ fullyTokenized' = t.fullyTokenized
    /\ tokenizedLines' = t.tokenizedLines
    /\ invalidRows' = t.invalidRows
    /\ deferred' = t.deferred
    /\ emitted' = t.emitted
    /\ tokenizeEvents' = t.tokenizeEvents
    /\ chunkSize' = t.chunkSize
    /\ lastCall' = call
    /\ UNCHANGED quiescent

\* the fields the constructor sets before it calls setGrammar. No method assigns
\* this.chunkSize: it reads as undefined unless the embedder has assigned the
\* property, on the prototype or on the object.
Constructed(lines, large, size) ==
    [buffer |-> lines, bufferAlive |-> TRUE, alive |-> TRUE, largeFileMode |-> large,
     grammar |-> NoGrammar, visible |-> FALSE, pendingChunk |-> FALSE,
     fullyTokenized |-> FALSE, tokenizedLines |-> <<>>, invalidRows |-> <<>>,
     deferred |-> 0, emitted |-> <<>>, tokenizeEvents |-> 0, chunkSize |-> size]

\* the values of this.chunkSize at construction
ChunkSizes == {NoNumber, Number(MaxChunkSize)}

Init ==
    \E lines \in SeqsUpTo(Texts, MaxLines), large \in BOOLEAN, g \in Grammars,
       size \in ChunkSizes :
        LET t == setGrammar(Constructed(lines, large, size), g)
        IN /\ buffer = t.buffer
           /\ bufferAlive = t.bufferAlive
           /\ alive = t.alive
           /\ largeFileMode = t.largeFileMode
           /\ grammar = t.grammar
           /\ visible = t.visible
           /\ pendingChunk = t.pendingChunk
           /\ fullyTokenized = t.fullyTokenized
           /\ tokenizedLines = t.tokenizedLines
           /\ invalidRows = t.invalidRows
           /\ deferred = t.deferred
           /\ emitted = t.emitted
           /\ tokenizeEvents = t.tokenizeEvents
           /\ chunkSize = t.chunkSize
           /\ lastCall = Call("constructor", <<>>, Undefined)
           /\ quiescent = FALSE

\* a call that setGrammar accepts: it returns at once when the grammar is null or
\* the current one
SetGrammar ==
    /\ ~quiescent
    /\ \E g \in Grammars \cup {NoGrammar} :
          /\ g # NoGrammar /\ g # grammar
          /\ Install(setGrammar(This, g), Call("setGrammar", <<>>, Undefined))

\* the callback of grammar.onDidUpdate
GrammarDidUpdate ==
    /\ ~quiescent
    /\ alive
    /\ Install(retokenizeLines(This), Call("retokenizeLines", <<>>, Undefined))

SetVisible ==
    \E v \in BOOLEAN :
        /\ quiescent => v
        /\ Install(setVisible(This, v), Call("setVisible", <<v>>, Undefined))

\* the text buffer replaces rows start..end by newLines and notifies its layers
BufferDidChange ==
    /\ ~quiescent
    /\ alive /\ bufferAlive
    /\ \E start \in 0..(Len(buffer) - 1) :
       \E end \in start..(Len(buffer) - 1) :
       \E newLines \in SeqsUpTo(Texts, MaxLines - Len(buffer) + (end - start + 1)) :
          LET e == [oldRange |-> [start |-> start, end |-> end],
                    newRange |-> [start |-> start, end |-> start + Len(newLines) - 1]]
              t == [This EXCEPT !.buffer = ReplaceRows(buffer, start, end, newLines)]
          IN /\ Install(bufferDidChange(t, e),
                        Call("bufferDidChange", <<start, end, e.newRange.end - end>>,
                             Undefined))
             /\ Len(invalidRows') <= MaxInvalidRows

\* after destroy() the call stores the placeholder in the emptied cache
TokenizedLineForRow ==
    \E row \in -1..Len(buffer) :
        /\ Install(tokenizedLineForRow(This, row), Named("tokenizedLineForRow"))
        /\ alive \/ Len(tokenizedLines') <= MaxRefilled

TokenizedLinesForRows ==
    \E startRow \in -1..Len(buffer) :
    \E endRow \in startRow..Len(buffer) :
        Install(tokenizedLinesForRows(This, startRow, endRow),
                Named("tokenizedLinesForRows"))

ScopeDescriptorForPosition ==
    \E row \in -1..Len(buffer) :
        Install(scopeDescriptorForPosition(This, row), Named("scopeDescriptorForPosition"))

\* the event loop runs the deferred callback
RunDeferredChunk ==
    /\ deferred > 0
    /\ Install(deferredChunk(This), Call("deferredChunk", <<>>, Undefined))

Destroy ==
    /\ ~quiescent
    /\ alive
    /\ Install(destroy(This), Call("destroy", <<>>, Undefined))

BufferDestroy ==
    /\ ~quiescent
    /\ bufferAlive
    /\ Install([This EXCEPT !.bufferAlive = FALSE], Call("buffer.destroy", <<>>, Undefined))

TokenForPosition ==
    \E row \in -1..Len(buffer) :
        Install(tokenForPosition(This, row),
                Call("tokenForPosition", <<row>>, tokenForPositionResult(This, row)))

TokenStartPositionForPosition ==
    \E row \in -1..Len(buffer) :
        Install(tokenStartPositionForPosition(This, row),
                Call("tokenStartPositionForPosition", <<row>>,
                     tokenStartPositionForPositionResult(This, row)))

BufferRangeForScopeAtPosition ==
    \E row \in -1..Len(buffer) :
        Install(bufferRangeForScopeAtPosition(This, row),
                Call("bufferRangeForScopeAtPosition", <<row>>,
                     bufferRangeForScopeAtPositionResult(This, row)))

IsFoldableAtRow ==
    \E row \in -1..Len(buffer) :
        Install(This, Call("isFoldableAtRow", <<row>>,
                           Returned(FALSE, isFoldableAtRow(This, row))))

Next ==
    \/ SetGrammar
    \/ GrammarDidUpdate
    \/ SetVisible
    \/ BufferDidChange
    \/ TokenizedLineForRow
    \/ RunDeferredChunk
    \/ Destroy
    \/ BufferDestroy

Spec == Init /\ [][Next]_vars

----------------------------------------------------------------------------
(* Runs in which the objects stay alive and the environment eventually     *)
(* stops editing; the event loop runs every callback handed to _.defer.    *)

\* from here on: no edit, no grammar change, no grammar update, no hiding
Quiesce ==
    /\ ~quiescent
    /\ quiescent' = TRUE
    /\ UNCHANGED <<buffer, bufferAlive, alive, largeFileMode, grammar, visible,
                   pendingChunk, fullyTokenized, tokenizedLines, invalidRows, deferred,
                   emitted, tokenizeEvents, chunkSize, lastCall>>

LiveNext ==
    \/ SetGrammar
    \/ GrammarDidUpdate
    \/ SetVisible
    \/ BufferDidChange
    \/ TokenizedLineForRow
    \/ RunDeferredChunk
    \/ Quiesce

\* Weak fairness of the event loop on the deferred callback, WF_vars(RunDeferredChunk),
\* with its enabling condition written out: the callback can run exactly when
\* deferred > 0, and running it changes the state.
ChunkFairness == []<>(deferred = 0) \/ []<><<RunDeferredChunk>>_vars

\* a TokenizedBuffer whose chunkSize has been assigned
LiveInit == Init /\ chunkSize # NoNumber

LiveSpec == LiveInit /\ [][LiveNext]_vars /\ ChunkFairness

----------------------------------------------------------------------------
(* updateInvalidRows and scopesFromTags as functions of their inputs       *)

\* the variables hold the fields of t
Begin(t, call) ==
    /\ buffer = t.buffer
    /\ bufferAlive = t.bufferAlive
    /\ alive = t.alive
    /\ largeFileMode = t.largeFileMode
    /\ grammar = t.grammar
    /\ visible = t.visible
    /\ pendingChunk = t.pendingChunk
    /\ fullyTokenized = t.fullyTokenized
    /\ tokenizedLines = t.tokenizedLines
    /\ invalidRows = t.invalidRows
    /\ deferred = t.deferred
    /\ emitted = <<>>
    /\ tokenizeEvents = t.tokenizeEvents
    /\ chunkSize = t.chunkSize
    /\ lastCall = call
    /\ quiescent = FALSE

\* a hidden TokenizedBuffer of MaxLines lines with the grammar "blocks"
Fresh == setGrammar(Constructed([i \in 1..MaxLines |-> "x"], FALSE, NoNumber), "blocks")

\* the lists invalidateRow can leave: rows 0..lineCount in ascending order
SortedRows(n) ==
    {rows \in UNION {[1..k -> 0..MaxLines] : k \in 0..n} :
        \A i \in 1..(Len(rows) - 1) : rows[i] <= rows[i + 1]}

RebaseInit ==
    \E rows \in SortedRows(MaxInvalidRows + 1) :
        Begin([Fresh EXCEPT !.invalidRows = rows], Call("constructor", <<>>, Undefined))

\* one call of updateInvalidRows(start, end, delta), as bufferDidChange makes it:
\* start <= end are rows of the old buffer and end + delta >= start
UpdateInvalidRows ==
    /\ lastCall.name = "constructor"
    /\ \E start \in 0..(MaxLines - 1) :
       \E end \in start..(MaxLines - 1) :
       \E delta \in (start - end)..MaxLines :
          Install(updateInvalidRows(This, start, end, delta),
                  Call("updateInvalidRows", <<start, end, delta>>, Undefined))

RebaseNext == UpdateInvalidRows

RebaseSpec == RebaseInit /\ [][RebaseNext]_vars

\* the tags a grammar can return, well nested or not
TagValues == {1, -1, -2, -3, -4}

ScopeValues == {-1, -3}

\* row 0 holds a line with the given openScopes and tags
FoldInit ==
    \E startingScopes \in UNION {[1..k -> ScopeValues] : k \in 0..MaxOpenScopes} :
    \E tags \in UNION {[1..k -> TagValues] : k \in 0..MaxTags} :
        Begin([Fresh EXCEPT !.tokenizedLines =
                   SetLine(@, 0, TokenizedLine("x", tags, <<"source.blocks">>,
                                               startingScopes))],
              Call("constructor", <<>>, Undefined))

\* the calls of this.assert(false, ...) scopesFromTags makes
assertionsFromTags(startingScopes, tags) == FoldTags(startingScopes, tags, 0).asserts

\* openScopesForRow(1): scopesFromTags(precedingLine.openScopes, precedingLine.tags)
OpenScopesForRow ==
    /\ lastCall.name = "constructor"
    /\ LET precedingLine == LineAt(tokenizedLines, 0)
       IN Install(This,
                  Call("openScopesForRow", <<1>>,
                       Returned(FALSE,
                                [scopes |-> openScopesForRow(This, 1),
                                 asserts |-> assertionsFromTags(precedingLine.openScopes,
                                                                precedingLine.tags)])))

FoldNext == OpenScopesForRow

FoldSpec == FoldInit /\ [][FoldNext]_vars

----------------------------------------------------------------------------
(* The row-taking queries, on a TokenizedBuffer that is shown, hidden and *)
(* tokenized in the background.                                            *)

QueryNext ==
    \/ SetVisible
    \/ RunDeferredChunk
    \/ TokenizedLineForRow
    \/ TokenizedLinesForRows
    \/ ScopeDescriptorForPosition
    \/ TokenForPosition
    \/ TokenStartPositionForPosition
    \/ BufferRangeForScopeAtPosition
    \/ IsFoldableAtRow

QuerySpec == Init /\ [][QueryNext]_vars

----------------------------------------------------------------------------
(* Vocabulary of the properties *)

Rows == 0..(Len(buffer) - 1)

RealGrammarMode == ~largeFileMode /\ grammar # NullGrammar

\* this.chunkSize has been assigned a number
HasChunkSize == chunkSize # NoNumber

\* row holds a line the grammar built (not an empty slot, not a placeholder)
Built(row) == LineAt(tokenizedLines, row).present /\ LineAt(tokenizedLines, row).ruleStack # NoStack

IsInvalid(row) == \E i \in 1..Len(invalidRows) : invalidRows[i] = row

EmittedNames == [i \in 1..Len(emitted) |-> emitted[i].name]

EmittedCount(name) == Cardinality({i \in 1..Len(emitted) : emitted[i].name = name})

\* the rows of the did-invalidate-range events of a sequence of events
RECURSIVE RangeRows(_)
RangeRows(events) ==
    IF events = <<>> THEN 0
    ELSE (IF Head(events).name = "did-invalidate-range"
            THEN Head(events).arg[2] - Head(events).arg[1] ELSE 0)
         + RangeRows(Tail(events))

CountOf(rows, row) == Cardinality({i \in 1..Len(rows) : rows[i] = row})

\* row holds a placeholder or nothing
Unbuilt(row) == LineAt(tokenizedLines, row).ruleStack = NoStack

\* the queries whose row and result lastCall records
RowQueries ==
    {"tokenForPosition", "tokenStartPositionForPosition",
     "bufferRangeForScopeAtPosition", "isFoldableAtRow"}

\* the rule stack a sequential tokenization of the buffer from row 0 leaves at row
RECURSIVE ScratchStack(_)
ScratchStack(row) ==
    tokenizeLine(grammar, buffer[row + 1],
                 IF row = 0 THEN NoStack ELSE ScratchStack(row - 1), row = 0).ruleStack

----------------------------------------------------------------------------
(* C1: on a live TokenizedBuffer the cache has one slot per buffer line,   *)
(* after every edit, chunk, query and reset, with or without a grammar.    *)
C1_CacheLength == alive => Len(tokenizedLines) = Len(buffer)

\* an edit left a full-size buffer whose cache has empty and filled slots
C1_Witness ==
    /\ lastCall.name = "bufferDidChange"
    /\ Len(buffer) = MaxLines
    /\ Len(tokenizedLines) = MaxLines
    /\ \E r \in Rows : LineAt(tokenizedLines, r).present
    /\ \E r \in Rows : ~LineAt(tokenizedLines, r).present

(* C2, as stated: every row of invalidRows is a row of the buffer. *)
C2_RowsInBuffer ==
    alive => \A i \in 1..Len(invalidRows) :
                invalidRows[i] >= 0 /\ invalidRows[i] <= Len(buffer) - 1

(* C2, amended: every row of invalidRows lies in [0, lastRow + 1]; the row *)
(* after the last one can be stored.                                       *)
C2_RowsUpToLineCount ==
    alive => \A i \in 1..Len(invalidRows) :
                invalidRows[i] >= 0 /\ invalidRows[i] <= Len(buffer)

\* a chunk ran out of budget on the last row and invalidated the row after it
C2_Witness ==
    /\ lastCall.name = "deferredChunk"
    /\ alive
    /\ IsInvalid(Len(buffer))
    /\ Built(Len(buffer) - 1)

(* C3, as stated: invalidRows is strictly ascending (sorted, no duplicates). *)
C3_StrictlyAscending ==
    \A i \in 1..(Len(invalidRows) - 1) : invalidRows[i] < invalidRows[i + 1]

(* C3, amended: invalidRows is sorted in non-decreasing order; a row can   *)
(* be stored more than once.                                               *)
C3_Sorted ==
    \A i \in 1..(Len(invalidRows) - 1) : invalidRows[i] <= invalidRows[i + 1]

\* an edit left the same row stored twice
C3_Witness ==
    /\ lastCall.name = "bufferDidChange"
    /\ \E i \in 1..(Len(invalidRows) - 1) : invalidRows[i] = invalidRows[i + 1]

(* C4, as stated: fullyTokenized holds exactly when invalidRows is empty   *)
(* and no row of the buffer lacks a tokenized line.                        *)
C4_FlagIffDrained ==
    alive => (fullyTokenized <=>
                (invalidRows = <<>> /\ \A r \in Rows : LineAt(tokenizedLines, r).present))

(* C4, amended: whenever invalidRows is empty fullyTokenized is true, and  *)
(* under a real grammar every row then holds a grammar-built line; the     *)
(* flag is not lowered by edits.                                           *)
C4_DrainedImpliesFlag ==
    (alive /\ invalidRows = <<>>) =>
        /\ fullyTokenized
        /\ RealGrammarMode => \A r \in Rows : Built(r)

\* a chunk drained the last invalid row of a buffer of several lines
C4_Witness ==
    /\ lastCall.name = "deferredChunk"
    /\ alive /\ RealGrammarMode
    /\ Len(buffer) > 1
    /\ invalidRows = <<>>
    /\ EmittedCount("did-invalidate-range") > 0

(* C5: in large-file mode or under the Null Grammar, after any operation   *)
(* of a live TokenizedBuffer fullyTokenized is true and invalidRows is     *)
(* empty, and the operation has scheduled no chunk.                        *)
C5_NullModeNeverSchedules ==
    [][(alive' /\ (largeFileMode' \/ grammar' = NullGrammar)) =>
          /\ fullyTokenized'
          /\ invalidRows' = <<>>
          /\ deferred' <= deferred
          /\ pendingChunk' => pendingChunk]_vars

\* an edit of a visible buffer without a real grammar
C5_Witness ==
    /\ lastCall.name = "bufferDidChange"
    /\ visible /\ alive
    /\ largeFileMode \/ grammar = NullGrammar
    /\ fullyTokenized /\ invalidRows = <<>> /\ ~pendingChunk

(* C6: once edits and grammar changes have stopped on a visible            *)
(* TokenizedBuffer with a real grammar and chunkSize >= 1, finitely many   *)
(* deferred chunks leave invalidRows empty, fullyTokenized true and no     *)
(* chunk scheduled.                                                        *)
C6_DrainTerminates ==
    (quiescent /\ visible /\ RealGrammarMode /\ HasChunkSize /\ chunkSize[1] >= 1)
        ~> (invalidRows = <<>> /\ fullyTokenized /\ ~pendingChunk /\ deferred = 0)

\* the environment went quiet with two invalid regions left and a chunk pending;
\* the chunks have since drained them
C6_Witness ==
    /\ quiescent /\ visible /\ RealGrammarMode
    /\ HasChunkSize /\ chunkSize[1] >= 1
    /\ lastCall.name = "deferredChunk"
    /\ Len(buffer) = MaxLines
    /\ invalidRows = <<>> /\ fullyTokenized /\ ~pendingChunk /\ deferred = 0

(* C7: under a real grammar, for adjacent rows r, r+1 that both hold a     *)
(* grammar-built line with r+1 not in invalidRows, the rule stack cached   *)
(* at r+1 is the one tokenizeLine gives for the text of r+1 from the rule  *)
(* stack cached at r; and once invalidRows is empty every cached rule      *)
(* stack is the one a sequential tokenization from row 0 produces.         *)
C7_RuleStackContinuity ==
    (alive /\ RealGrammarMode) =>
        /\ \A r \in Rows :
              (r + 1 \in Rows /\ Built(r) /\ Built(r + 1) /\ ~IsInvalid(r + 1)) =>
                  LineAt(tokenizedLines, r + 1).ruleStack =
                      tokenizeLine(grammar, buffer[r + 2],
                                   LineAt(tokenizedLines, r).ruleStack, FALSE).ruleStack
        /\ invalidRows = <<>> =>
              \A r \in Rows : LineAt(tokenizedLines, r).ruleStack = ScratchStack(r)

\* a chunk stopped above a row it did not rebuild and left the buffer drained,
\* with a block comment open across rows
C7_Witness ==
    /\ lastCall.name = "deferredChunk"
    /\ alive /\ RealGrammarMode
    /\ Len(buffer) = MaxLines
    /\ invalidRows = <<>>
    /\ \A r \in Rows : Built(r)
    /\ \E r \in Rows : Len(LineAt(tokenizedLines, r).ruleStack) > 1
    /\ \E i \in 1..Len(emitted) :
          emitted[i].name = "did-invalidate-range" /\ emitted[i].arg[2] < Len(buffer)

(* C8: for adjacent rows r, r+1 that both hold a grammar-built line with   *)
(* r+1 not in invalidRows, openScopes of r+1 is scopesFromTags applied to  *)
(* the openScopes and tags of r.                                           *)
C8_OpenScopeContinuity ==
    (alive /\ RealGrammarMode) =>
        \A r \in Rows :
            (r + 1 \in Rows /\ Built(r) /\ Built(r + 1) /\ ~IsInvalid(r + 1)) =>
                LineAt(tokenizedLines, r + 1).openScopes =
                    scopesFromTags(LineAt(tokenizedLines, r).openScopes,
                                   LineAt(tokenizedLines, r).tags)

\* an edit rebuilt a row inside a block comment and did not invalidate the row after it,
\* which holds a line opened inside the comment
C8_Witness ==
    /\ lastCall.name = "bufferDidChange"
    /\ alive /\ RealGrammarMode
    /\ \E r \in Rows :
          /\ r + 1 \in Rows /\ Built(r) /\ Built(r + 1) /\ ~IsInvalid(r + 1)
          /\ Len(LineAt(tokenizedLines, r + 1).openScopes) > 1

(* C9: since the last reset of the cache did-tokenize has been emitted     *)
(* once if fullyTokenized is true and never if it is false: one event per  *)
(* rise of the flag, none from a completion that finds it already true.    *)
C9_OneTokenizeEventPerRise == tokenizeEvents = IF fullyTokenized THEN 1 ELSE 0

\* a chunk drained rows an edit had invalidated after tokenization completed:
\* it emitted a range and no did-tokenize
C9_Witness ==
    /\ lastCall.name = "deferredChunk"
    /\ alive /\ RealGrammarMode
    /\ fullyTokenized /\ invalidRows = <<>>
    /\ EmittedCount("did-invalidate-range") > 0
    /\ EmittedCount("did-tokenize") = 0

(* C10, as stated: an accepted setGrammar emits did-change-grammar exactly *)
(* once, and no did-tokenize or did-invalidate-range before it.            *)
C10_GrammarEventFirst ==
    (lastCall.name = "setGrammar" /\ emitted # <<>>) =>
        /\ EmittedCount("did-change-grammar") = 1
        /\ emitted[1].name = "did-change-grammar"

(* C11: a deferred callback that runs after destroy() or after the text    *)
(* buffer died does not run tokenizeNextChunk: it leaves tokenizedLines,   *)
(* invalidRows and fullyTokenized as they were, emits no event and         *)
(* schedules nothing; and no step of a destroyed TokenizedBuffer           *)
(* schedules a chunk.                                                      *)
C11_Cancellation ==
    [][/\ (lastCall'.name = "deferredChunk" /\ (~alive \/ ~bufferAlive)) =>
             /\ tokenizedLines' = tokenizedLines
             /\ invalidRows' = invalidRows
             /\ fullyTokenized' = fullyTokenized
             /\ emitted' = <<>>
             /\ deferred' = deferred - 1
             /\ ~pendingChunk'
       /\ ~alive => (deferred' <= deferred /\ (pendingChunk' => pendingChunk))]_vars

\* the callback scheduled for a visible buffer with invalid rows ran after destroy()
C11_Witness ==
    /\ lastCall.name = "deferredChunk"
    /\ ~alive /\ bufferAlive /\ visible
    /\ invalidRows # <<>>
    /\ deferred = 0 /\ ~pendingChunk

(* C12, as stated: a row-taking query with a row outside [0, lastRow]      *)
(* raises no error and returns nothing (false for isFoldableAtRow); for    *)
(* tokenizedLineForRow, whose calls are not recorded, the rows just        *)
(* outside the buffer are tried in every state.                            *)
C12_OutOfRangeNeverThrows ==
    /\ \A row \in {-1, Len(buffer)} :
          /\ tokenizedLineForRowResult(This, row) = NoLine
          /\ tokenizedLineForRow(This, row) = This
    /\ (lastCall.name \in RowQueries
          /\ (lastCall.args[1] < 0 \/ lastCall.args[1] > Len(buffer) - 1)) =>
          /\ ~lastCall.result.threw
          /\ lastCall.name = "isFoldableAtRow" => lastCall.result.value = FALSE
          /\ lastCall.name # "isFoldableAtRow" => lastCall.result.value = NoLine

(* C13: updateInvalidRows(start, end, delta) maps every stored row r to r  *)
(* when r < start, to end + delta + 1 when start <= r <= end and to        *)
(* r + delta when r > end; it keeps the number of entries and their order. *)
C13_EditRebasing ==
    [][lastCall'.name = "updateInvalidRows" =>
          LET start == lastCall'.args[1]
              end == lastCall'.args[2]
              delta == lastCall'.args[3]
          IN /\ Len(invalidRows') = Len(invalidRows)
             /\ \A i \in 1..Len(invalidRows) :
                   LET r == invalidRows[i]
                   IN /\ r < start => invalidRows'[i] = r
                      /\ (start <= r /\ r <= end) => invalidRows'[i] = end + delta + 1
                      /\ r > end => invalidRows'[i] = r + delta
             /\ \A i, j \in 1..Len(invalidRows) :
                   invalidRows[i] <= invalidRows[j] => invalidRows'[i] <= invalidRows'[j]]_vars

\* a call that kept a row before the edit, moved a row of the edited range past it
\* and shifted a row after it
C13_Witness ==
    /\ lastCall.name = "updateInvalidRows"
    /\ lastCall.args[3] # 0
    /\ Len(invalidRows) = 3
    /\ invalidRows[1] < lastCall.args[1]
    /\ invalidRows[2] = lastCall.args[2] + lastCall.args[3] + 1
    /\ invalidRows[3] > lastCall.args[2] + lastCall.args[3] + 1

(* C14, as stated: when a close tag empties the stack without finding its  *)
(* open tag, scopesFromTags reports one assertion failure and stops: it    *)
(* applies no later tag and returns the empty stack.                       *)
C14_StopsAtUnmatchedClose ==
    (lastCall.name = "openScopesForRow" /\ lastCall.result.value.asserts > 0) =>
        /\ lastCall.result.value.asserts = 1
        /\ lastCall.result.value.scopes = <<>>

(* C15: tokenizedLineForRow(row) for a row of the buffer returns a line:   *)
(* the cached one, unchanged, if the slot is filled, else a placeholder it *)
(* stores, with tags [root open, line length, root close], no open scopes  *)
(* and no rule stack; invalidRows, fullyTokenized and the other slots stay *)
(* as they were. A chunk leaves a grammar-built line in every row of the   *)
(* ranges it emits, and it does not stop at a row that held a placeholder  *)
(* unless that row is the last one or the budget ran out.                  *)
C15_Placeholder ==
    [][/\ lastCall'.name = "tokenizedLineForRow" =>
             /\ \A row \in Rows :
                   LET result == tokenizedLineForRowResult(This, row)
                       cached == LineAt(tokenizedLines, row)
                       root == scopeName(grammar)
                   IN /\ result.present
                      /\ cached.present => result = cached
                      /\ ~cached.present =>
                            /\ result.text = buffer[row + 1]
                            /\ result.tags = <<startIdForScope(grammar, root),
                                               TextLength(buffer[row + 1]),
                                               endIdForScope(grammar, root)>>
                            /\ result.openScopes = <<>>
                            /\ result.ruleStack = NoStack
                      /\ \/ LineAt(tokenizedLines', row) = cached
                         \/ ~cached.present /\ LineAt(tokenizedLines', row) = result
             /\ alive => Len(tokenizedLines') = Len(tokenizedLines)
             /\ Cardinality({row \in Rows : LineAt(tokenizedLines', row)
                                                # LineAt(tokenizedLines, row)}) <= 1
             /\ invalidRows' = invalidRows
             /\ fullyTokenized' = fullyTokenized
       /\ (lastCall'.name = "deferredChunk" /\ alive /\ bufferAlive) =>
             \A i \in 1..Len(emitted') :
                 emitted'[i].name = "did-invalidate-range" =>
                     /\ \A r \in emitted'[i].arg[1]..(emitted'[i].arg[2] - 1) :
                           LineAt(tokenizedLines', r).ruleStack # NoStack
                     /\ Unbuilt(emitted'[i].arg[2] - 1) =>
                           \/ emitted'[i].arg[2] - 1 = Len(buffer) - 1
                           \/ Number(RangeRows(emitted')) = chunkSize]_vars

\* a query stored a placeholder in a row below the first one while rows are invalid
C15_Witness ==
    /\ lastCall.name = "tokenizedLineForRow"
    /\ alive /\ RealGrammarMode
    /\ invalidRows # <<>>
    /\ \E row \in Rows :
          /\ row >= 1
          /\ LineAt(tokenizedLines, row).present
          /\ LineAt(tokenizedLines, row).ruleStack = NoStack
          /\ Len(LineAt(tokenizedLines, row).tags) = 3

(* C16: the did-invalidate-range events of one tokenizeNextChunk are in    *)
(* increasing row order and do not overlap: each range is non-empty and    *)
(* starts after the last row of the range emitted before it.               *)
C16_RangesAscending ==
    lastCall.name = "deferredChunk" =>
        \A i \in 1..Len(emitted) :
            emitted[i].name = "did-invalidate-range" =>
                /\ emitted[i].arg[1] < emitted[i].arg[2]
                /\ \A j \in (i + 1)..Len(emitted) :
                      emitted[j].name = "did-invalidate-range" =>
                          emitted[j].arg[1] > emitted[i].arg[2] - 1

\* one chunk emitted two ranges
C16_Witness ==
    /\ lastCall.name = "deferredChunk"
    /\ EmittedCount("did-invalidate-range") = 2

(* C17: under a real grammar an edit calls invalidateRow(end + delta + 1)  *)
(* exactly when the rule stack at end + delta after the rebuild is         *)
(* non-null and differs from the one cached at end before the edit. It     *)
(* rebuilds no row after end + delta; when the new stack equals the old    *)
(* one it adds no entry to invalidRows. The only other entry an edit adds  *)
(* is start + chunkSize, when the edited range exceeds the budget and the  *)
(* new stack at end + delta is therefore null.                             *)
C17_SpillRule ==
    [][(lastCall'.name = "bufferDidChange" /\ RealGrammarMode) =>
          LET start == lastCall'.args[1]
              end == lastCall'.args[2]
              delta == lastCall'.args[3]
              previousEndStack == LineAt(tokenizedLines, end).ruleStack
              newEndStack == LineAt(tokenizedLines', end + delta).ruleStack
              rebased == CountOf(invalidRows, end + 1)
                           + Cardinality({i \in 1..Len(invalidRows) :
                                   start <= invalidRows[i] /\ invalidRows[i] <= end})
              spilled == CountOf(invalidRows', end + delta + 1) = rebased + 1
              overBudget == HasChunkSize /\ end + delta >= start + chunkSize[1]
          IN /\ spilled <=> (newEndStack # NoStack /\ newEndStack # previousEndStack)
             /\ ~spilled => CountOf(invalidRows', end + delta + 1) = rebased
             /\ \A r \in (end + delta + 1)..(Len(buffer') - 1) :
                   LineAt(tokenizedLines', r) = LineAt(tokenizedLines, r - delta)
             /\ (newEndStack # NoStack /\ newEndStack = previousEndStack) =>
                   Len(invalidRows') = Len(invalidRows)
             /\ Len(invalidRows') = Len(invalidRows)
                                      + (IF spilled THEN 1 ELSE 0)
                                      + (IF overBudget THEN 1 ELSE 0)]_vars

\* an edit of a row above built rows changed the rule stack at its end and
\* invalidated the row after it, which keeps its stale line
C17_Witness ==
    /\ lastCall.name = "bufferDidChange"
    /\ alive /\ RealGrammarMode
    /\ lastCall.args[2] + lastCall.args[3] + 1 <= Len(buffer) - 1
    /\ Built(lastCall.args[2] + lastCall.args[3])
    /\ Built(lastCall.args[2] + lastCall.args[3] + 1)
    /\ IsInvalid(lastCall.args[2] + lastCall.args[3] + 1)
    /\ LineAt(tokenizedLines, lastCall.args[2] + lastCall.args[3] + 1).ruleStack
          # tokenizeLine(grammar, buffer[lastCall.args[2] + lastCall.args[3] + 2],
                         LineAt(tokenizedLines, lastCall.args[2] + lastCall.args[3]).ruleStack,
                         FALSE).ruleStack

(* C18: when chunkSize is a positive number, one tokenizeNextChunk builds  *)
(* at most chunkSize lines over all the regions it processes, and when it  *)
(* uses the whole budget it invalidates the row after the last one it      *)
(* built; one bufferDidChange builds at most chunkSize lines, rows         *)
(* start .. start + chunkSize - 1, leaves the other rows of the edited     *)
(* range empty and invalidates row start + chunkSize.                      *)
C18_BoundedWork ==
    /\ (lastCall.name = "deferredChunk" /\ HasChunkSize) =>
          /\ RangeRows(emitted) <= chunkSize[1]
          /\ (alive /\ RangeRows(emitted) = chunkSize[1]) =>
                \E i \in 1..Len(emitted) :
                    /\ emitted[i].name = "did-invalidate-range"
                    /\ \A j \in (i + 1)..Len(emitted) :
                          emitted[j].name # "did-invalidate-range"
                    /\ IsInvalid(emitted[i].arg[2])
    /\ (lastCall.name = "bufferDidChange" /\ alive /\ RealGrammarMode /\ HasChunkSize) =>
          LET start == lastCall.args[1]
              newEnd == lastCall.args[2] + lastCall.args[3]
              size == chunkSize[1]
          IN /\ Cardinality({r \in start..newEnd : LineAt(tokenizedLines, r).present})
                   <= size
             /\ \A r \in start..newEnd :
                   r >= start + size => ~LineAt(tokenizedLines, r).present
             /\ newEnd >= start + size => IsInvalid(start + size)

\* an edit longer than the budget built chunkSize rows and left the next one empty
\* and invalid
C18_Witness ==
    /\ lastCall.name = "bufferDidChange"
    /\ alive /\ RealGrammarMode /\ HasChunkSize
    /\ lastCall.args[2] + lastCall.args[3] >= lastCall.args[1] + chunkSize[1]
    /\ \A r \in lastCall.args[1]..(lastCall.args[1] + chunkSize[1] - 1) : Built(r)
    /\ ~LineAt(tokenizedLines, lastCall.args[1] + chunkSize[1]).present
    /\ IsInvalid(lastCall.args[1] + chunkSize[1])

(* C19: at most one deferred callback is outstanding and pendingChunk is   *)
(* true exactly while one is; a step schedules a callback only on a        *)
(* visible, live TokenizedBuffer with no callback pending.                 *)
C19_Debounced ==
    [][/\ deferred' <= 1
       /\ pendingChunk' <=> deferred' = 1
       /\ deferred' > deferred => (visible' /\ alive' /\ ~pendingChunk)
       /\ (lastCall'.name = "deferredChunk" /\ deferred' = deferred) =>
             (visible' /\ alive')]_vars

\* an edit that invalidated rows while a callback was pending scheduled no second one
C19_Witness ==
    /\ lastCall.name = "bufferDidChange"
    /\ alive /\ visible /\ RealGrammarMode
    /\ Len(invalidRows) = 2
    /\ pendingChunk /\ deferred = 1

(* C20: between operations, while the TokenizedBuffer and the text buffer  *)
(* are alive, a visible buffer with invalid rows has a chunk pending.      *)
C20_NoLostWakeUp ==
    (alive /\ bufferAlive /\ visible /\ invalidRows # <<>>) => pendingChunk

\* rows invalidated while hidden are scheduled by setVisible(true)
C20_Witness ==
    /\ lastCall.name = "setVisible"
    /\ alive /\ bufferAlive /\ visible
    /\ invalidRows # <<>> /\ Head(invalidRows) >= 1
    /\ pendingChunk /\ deferred = 1

====
